---- MODULE Spec2Model ----
(***************************************************************************)
(* Dispatch core of src/app.py: send_sms, api_send, api_broadcast, the     *)
(* scheduled-message table with its periodic job send_scheduled_messages,  *)
(* api_scheduled (create / cancel) and the inbound webhook.                *)
(*                                                                         *)
(* Every request handler and every run of the periodic job is a worker     *)
(* whose position is pc[w]; one step of a worker is the code between two   *)
(* points at which another worker's commit can become visible to it (a     *)
(* database read, the call to the transport, a commit).                    *)
(***************************************************************************)
EXTENDS Integers, Sequences, FiniteSets, TLC

\* ------------------------------------------------------------------ bounds
NumPartners == 2    \* partner rows present at the start (ids 1..NumPartners)
MaxBatches  == 1    \* ScheduledMessage rows that may be created
MaxTime     == 1    \* the clock runs over 0..MaxTime
MaxIds      == 2    \* longest partner_ids list of a request or a batch
MaxRequests == 2    \* api_send / api_broadcast requests served
MaxInbound  == 1    \* inbound receipts delivered to the webhook
MaxSamples  == 10   \* longest history of one partner read by api_ai_best_time
MaxActive   == 32   \* most partner rows read by api_ai_next_actions
MaxPieces   == 3    \* most pieces a sample template is made of

\* Two instances of the periodic job (one scheduler per server process) and
\* one request thread.
Runners  == {"job1", "job2"}
Handlers == {"req"}
Workers  == Runners \cup Handlers

\* Partner ids a caller may name; the last one has no row at the start.
PartnerIds == 1..(NumPartners + 1)
\* Partner p has phone p; an inbound receipt may come from any of them.
Phones == PartnerIds
\* Bodies of the inbound receipts of the dispatch specifications: one that is
\* an opt-out keyword after strip() and lower(), one that only contains one.
Bodies == {" Stop ", "stop please"}
Times == 0..MaxTime

VARIABLES
    now,          \* datetime.utcnow()
    configured,   \* get_twilio_client() returns a client
    partners,     \* Partner table: id -> row
    messages,     \* Message table, in insertion order
    scheduled,    \* ScheduledMessage table: id -> row
    pc,           \* position of each worker
    kind,         \* what the worker is running
    ids,          \* the partner_ids list the worker iterates
    idx,          \* index of the current element of ids
    rnow,         \* local `now` of a run of the periodic job
    pending,      \* local `pending` of a run: the rows it selected
    bidx,         \* index of the current element of pending
    sid,          \* message.sid returned by the transport, until logged
    outcomes,     \* per element of ids: what happened and what was returned
    optAtStart,   \* opted_out of the current partner when its turn began
    calls,        \* history of client.messages.create calls
    selected,     \* history: batches some run has selected
    requests,     \* api_send / api_broadcast requests served so far
    response,     \* what the last webhook, analytics or rendering request returned
    notified      \* history: what the last receipt's notification attempts did

wvars == <<pc, kind, ids, idx, rnow, pending, bidx, sid, outcomes, optAtStart>>
vars == <<now, configured, partners, messages, scheduled, wvars, calls, selected, requests,
         response, notified>>

\* ------------------------------------------------------------ data helpers
RECURSIVE SeqsUpTo(_, _)
SeqsUpTo(S, n) ==
    IF n = 0 THEN {<<>>}
    ELSE LET shorter == SeqsUpTo(S, n - 1)
         IN  shorter \cup {Append(s, x) : s \in shorter, x \in S}

Range(s) == {s[i] : i \in 1..Len(s)}

\* The partner_ids lists a caller sends: a target set, each id once.
IdLists == {s \in SeqsUpTo(PartnerIds, MaxIds) : Cardinality(Range(s)) = Len(s)}

NoPartner == [exists |-> FALSE, opted_out |-> FALSE]

\* Mutant: the opt-out flag as it was when the row was first stored.
Partner_query_get_stale(pid) ==
    IF pid \in DOMAIN partners
    THEN [exists |-> TRUE, opted_out |-> FALSE]
    ELSE NoPartner

\* Partner.query.get(pid): the committed row, or None.
Partner_query_get(pid) ==
    IF pid \in DOMAIN partners
    THEN [exists |-> TRUE, opted_out |-> partners[pid].opted_out]
    ELSE NoPartner

\* Partner.query.filter_by(phone=from_number).first()
PartnerByPhone(ph) ==
    IF \E p \in DOMAIN partners : partners[p].phone = ph
    THEN CHOOSE p \in DOMAIN partners : partners[p].phone = ph
    ELSE 0

\* The primary key the database gives a new Partner row: one more than the
\* largest id in the table (SQLite, the default DATABASE_URL).
NewPartnerId ==
    IF DOMAIN partners = {} THEN 1
    ELSE 1 + CHOOSE m \in DOMAIN partners : \A p \in DOMAIN partners : p <= m

\* The true committed opt-out state of a partner id (history use only).
CommittedOptOut(pid) == pid \in DOMAIN partners /\ partners[pid].opted_out

Entry(pid, gate, transport, logged, result) ==
    [pid |-> pid, optAtStart |-> gate, transport |-> transport,
     logged |-> logged, result |-> result]

\* results.append(...) of api_broadcast / the value api_send returns: the
\* entries for which send_sms was invoked.
Results(w) ==
    SelectSeq(outcomes[w], LAMBDA e : e.result \notin {"no_partner", "skipped"})

InboundCount == Cardinality({i \in 1..Len(messages) : messages[i].direction = "inbound"})
SidCount == Cardinality({c \in calls : c.ok})

\* ----------------------------------------------------------------- strings
\* A string is a sequence of one-character strings: Len, \o, Head, Tail and
\* SubSeq apply to it.
Whitespace == {" ", "\t", "\n", "\r"}
UpperCase == "ABCDEFGHIJKLMNOPQRSTUVWXYZ"
LowerCase == "abcdefghijklmnopqrstuvwxyz"

CharAt(s, i) == SubSeq(s, i, i)

RECURSIVE LStrip(_)
LStrip(s) == IF s # "" /\ Head(s) \in Whitespace THEN LStrip(Tail(s)) ELSE s

RECURSIVE RStrip(_)
RStrip(s) ==
    IF s # "" /\ CharAt(s, Len(s)) \in Whitespace
    THEN RStrip(SubSeq(s, 1, Len(s) - 1))
    ELSE s

\* str.strip(): whitespace removed at both ends.
Strip(s) == RStrip(LStrip(s))

\* The lower-case letter of every upper-case letter.
ToLower ==
    [c \in {CharAt(UpperCase, i) : i \in 1..Len(UpperCase)} |->
        CharAt(LowerCase, CHOOSE i \in 1..Len(UpperCase) : CharAt(UpperCase, i) = c)]

LowerChar(c) == IF c \in DOMAIN ToLower THEN ToLower[c] ELSE c

RECURSIVE Lower(_)
\* str.lower()
Lower(s) == IF s = "" THEN "" ELSE LowerChar(Head(s)) \o Lower(Tail(s))

\* s.startswith(prefix)
StartsWith(s, prefix) ==
    Len(prefix) <= Len(s) /\ SubSeq(s, 1, Len(prefix)) = prefix

\* -------------------------------------------------------------------- Init
\* A value no handler returns.
NoResponse == [kind |-> "none"]

\* No receipt has been handled yet.
NoNotice == [email |-> "none", sms |-> "none"]

\* Partner(phone=...): a new row with the defaults of its columns.
NewPartner(ph) ==
    [phone |-> ph, opted_out |-> FALSE, pinned |-> FALSE, archived |-> FALSE,
     last_contacted |-> -1]

\* No request is being served and no run of the periodic job is under way.
WorkersIdle ==
    /\ pc = [w \in Workers |-> "idle"]
    /\ kind = [w \in Workers |-> IF w \in Runners THEN "batch" ELSE "none"]
    /\ ids = [w \in Workers |-> <<>>]
    /\ idx = [w \in Workers |-> 0]
    /\ rnow = [w \in Workers |-> 0]
    /\ pending = [w \in Workers |-> <<>>]
    /\ bidx = [w \in Workers |-> 0]
    /\ sid = [w \in Workers |-> 0]
    /\ outcomes = [w \in Workers |-> <<>>]
    /\ optAtStart = [w \in Workers |-> FALSE]
    /\ calls = {}
    /\ selected = {}
    /\ requests = 0

Init ==
    /\ now = 0
    /\ configured \in BOOLEAN
    /\ partners = [p \in 1..NumPartners |-> NewPartner(p)]
    /\ messages = <<>>
    /\ scheduled = <<>>
    /\ WorkersIdle
    /\ response = NoResponse
    /\ notified = NoNotice


\* ------------------------------------------------------------------- clock
\* Time passes.
Tick ==
    /\ now < MaxTime
    /\ now' = now + 1
    /\ UNCHANGED <<notified, response, configured, partners, messages, scheduled, wvars, calls,
                   selected, requests>>

\* ---------------------------------------------------------------- send_sms
\* Mutant: the first element ends the loop (an error that leaves the loop).
AfterElementAbort(k, i, n) ==
    IF k = "batch" THEN "mark" ELSE "idle"

\* Where a worker continues after send_sms returned (or after the loop body
\* was skipped) for element i of a list of length n.
AfterElement(k, i, n) ==
    IF k = "single" THEN "idle"
    ELSE IF i < n THEN "loop"
    ELSE IF k = "batch" THEN "mark" ELSE "idle"

\* The loop body is over for the current element: record what happened.
Return(w, entry) ==
    /\ outcomes' = [outcomes EXCEPT ![w] = Append(@, entry)]
    /\ pc' = [pc EXCEPT ![w] = AfterElement(kind[w], idx[w], Len(ids[w]))]
    /\ idx' = [idx EXCEPT ![w] = @ + 1]
    /\ optAtStart' = [optAtStart EXCEPT ![w] = FALSE]

\* `partner and partner.opted_out` of send_sms, on the object it got.
OptOutDenied(p) == p.exists /\ p.opted_out

\* send_sms up to the transport call: the client check and the opt-out check
\* on the row that Partner.query.get(partner_id) reads.
send_sms_check(w) ==
    /\ pc[w] = "send_sms"
    /\ LET pid == ids[w][idx[w]]
       IN  IF ~configured
           THEN Return(w, Entry(pid, optAtStart[w], "none", FALSE, "not_configured"))
           ELSE IF OptOutDenied(Partner_query_get(pid))
                THEN Return(w, Entry(pid, optAtStart[w], "none", FALSE, "opted_out"))
                ELSE /\ pc' = [pc EXCEPT ![w] = "create"]
                     /\ UNCHANGED <<outcomes, idx, optAtStart>>
    /\ UNCHANGED <<notified, response, now, configured, partners, messages, scheduled, kind, ids,
                   rnow, pending, bidx, sid, calls, selected, requests>>

\* The batch the worker is sending for (0 outside the periodic job).
CurrentBatch(w) == IF kind[w] = "batch" THEN pending[w][bidx[w]].id ELSE 0

\* Whether the row the run is working on was pending and due when selected.
SelectedDue(w) ==
    kind[w] = "batch" =>
        /\ pending[w][bidx[w]].status = "pending"
        /\ pending[w][bidx[w]].scheduled_time <= rnow[w]

Call(w, ok) ==
    [w |-> w, kind |-> kind[w], req |-> requests, batch |-> CurrentBatch(w),
     to |-> ids[w][idx[w]], ok |-> ok, optAtCall |-> CommittedOptOut(ids[w][idx[w]]),
     optAtStart |-> optAtStart[w], selOk |-> SelectedDue(w)]

\* Mutant: last_contacted is written whether or not the transport accepted.
send_sms_create_touching(w) ==
    /\ pc[w] = "create"
    /\ \E ok \in BOOLEAN :
          /\ calls' = calls \cup {Call(w, ok)}
          /\ partners' = [partners EXCEPT ![ids[w][idx[w]]].last_contacted = now]
          /\ IF ok
             THEN /\ sid' = [sid EXCEPT ![w] = SidCount + 1]
                  /\ pc' = [pc EXCEPT ![w] = "log"]
                  /\ UNCHANGED <<outcomes, idx, optAtStart>>
             ELSE /\ Return(w, Entry(ids[w][idx[w]], optAtStart[w], "error", FALSE, "error"))
                  /\ UNCHANGED sid
    /\ UNCHANGED <<notified, response, now, configured, messages, scheduled, kind, ids,
                   rnow, pending, bidx, selected, requests>>

\* client.messages.create(**params): the transport accepts or raises.
send_sms_create(w) ==
    /\ pc[w] = "create"
    /\ \E ok \in BOOLEAN :
          /\ calls' = calls \cup {Call(w, ok)}
          /\ IF ok
             THEN /\ sid' = [sid EXCEPT ![w] = SidCount + 1]
                  /\ pc' = [pc EXCEPT ![w] = "log"]
                  /\ UNCHANGED <<outcomes, idx, optAtStart>>
             ELSE /\ Return(w, Entry(ids[w][idx[w]], optAtStart[w], "error", FALSE, "error"))
                  /\ UNCHANGED sid
    /\ UNCHANGED <<notified, response, now, configured, partners, messages, scheduled, kind, ids,
                   rnow, pending, bidx, selected, requests>>

\* The Message row send_sms adds (batch: which batch it was sent for).
OutboundMessage(w) ==
    [partner_id |-> ids[w][idx[w]], direction |-> "outbound", status |-> "queued",
     sid |-> sid[w], batch |-> CurrentBatch(w)]

\* Log the message, update last_contacted, commit, return success. When the
\* row was deleted after send_sms read it, the UPDATE of the commit finds no
\* row, the commit raises and the except branch returns the failure.
send_sms_log(w) ==
    /\ pc[w] = "log"
    /\ LET pid == ids[w][idx[w]]
       IN  IF pid \in DOMAIN partners
           THEN /\ messages' = Append(messages, OutboundMessage(w))
                /\ partners' = [partners EXCEPT ![pid].last_contacted = now]
                /\ Return(w, Entry(pid, optAtStart[w], "ok", TRUE, "success"))
           ELSE /\ UNCHANGED <<messages, partners>>
                /\ Return(w, Entry(pid, optAtStart[w], "ok", FALSE, "error"))
    /\ sid' = [sid EXCEPT ![w] = 0]
    /\ UNCHANGED <<notified, response, now, configured, scheduled, kind, ids, rnow, pending, bidx,
                   calls, selected, requests>>


\* --------------------------------------------------------------- api_send
\* POST /api/send: get_or_404, personalize, send_sms.
api_send(w, pid) ==
    /\ w \in Handlers /\ pc[w] = "idle"
    /\ requests < MaxRequests
    /\ requests' = requests + 1
    /\ kind' = [kind EXCEPT ![w] = "single"]
    /\ ids' = [ids EXCEPT ![w] = <<pid>>]
    /\ idx' = [idx EXCEPT ![w] = 1]
    /\ IF Partner_query_get(pid).exists
       THEN /\ optAtStart' = [optAtStart EXCEPT ![w] = CommittedOptOut(pid)]
            /\ outcomes' = [outcomes EXCEPT ![w] = <<>>]
            /\ pc' = [pc EXCEPT ![w] = "send_sms"]
       ELSE \* 404: send_sms is not reached
            /\ outcomes' = [outcomes EXCEPT ![w] =
                              <<Entry(pid, FALSE, "none", FALSE, "no_partner")>>]
            /\ pc' = [pc EXCEPT ![w] = "idle"]
            /\ UNCHANGED optAtStart
    /\ UNCHANGED <<notified, response, now, configured, partners, messages, scheduled, rnow, pending, bidx,
                   sid, calls, selected>>

\* ----------------------------------------------------------- api_broadcast
\* POST /api/broadcast, up to the loop.
api_broadcast(w, partner_ids) ==
    /\ w \in Handlers /\ pc[w] = "idle"
    /\ requests < MaxRequests
    /\ requests' = requests + 1
    /\ kind' = [kind EXCEPT ![w] = "broadcast"]
    /\ ids' = [ids EXCEPT ![w] = partner_ids]
    /\ idx' = [idx EXCEPT ![w] = 1]
    /\ outcomes' = [outcomes EXCEPT ![w] = <<>>]
    /\ pc' = [pc EXCEPT ![w] = IF partner_ids = <<>> THEN "idle" ELSE "loop"]
    /\ UNCHANGED <<notified, response, now, configured, partners, messages, scheduled, rnow, pending,
                   bidx, sid, optAtStart, calls, selected>>

\* `partner and not partner.opted_out` of the two loops.
LoopAdmits(p) == p.exists /\ ~p.opted_out

\* One turn of `for pid in partner_ids`, up to the call of send_sms; the same
\* code in api_broadcast and in send_scheduled_messages.
LoopBody(w) ==
    /\ pc[w] = "loop"
    /\ LET pid == ids[w][idx[w]]
           p   == Partner_query_get(pid)
       IN  IF LoopAdmits(p)
           THEN /\ optAtStart' = [optAtStart EXCEPT ![w] = CommittedOptOut(pid)]
                /\ pc' = [pc EXCEPT ![w] = "send_sms"]
                /\ UNCHANGED <<outcomes, idx>>
           ELSE Return(w, Entry(pid, CommittedOptOut(pid), "none", FALSE,
                                IF p.exists THEN "skipped" ELSE "no_partner"))
    /\ UNCHANGED <<notified, response, now, configured, partners, messages, scheduled, kind, ids, rnow,
                   pending, bidx, sid, calls, selected, requests>>

api_broadcast_loop(w) == w \in Handlers /\ kind[w] = "broadcast" /\ LoopBody(w)

\* ----------------------------------------------------------- api_scheduled
\* The partners opted out right now (history: kept with a new batch).
OptedOutNow == {p \in DOMAIN partners : partners[p].opted_out}

\* POST /api/scheduled: a new pending row with the next id.
api_scheduled(partner_ids, t) ==
    /\ Len(scheduled) < MaxBatches
    /\ scheduled' = Append(scheduled, [partner_ids |-> partner_ids,
                                       scheduled_time |-> t, status |-> "pending",
                                       optedThen |-> OptedOutNow])
    /\ UNCHANGED <<notified, response, now, configured, partners, messages, wvars, calls, selected, requests>>

\* DELETE /api/scheduled/<id>: any row, whatever its status.
api_scheduled_delete(id) ==
    /\ id \in DOMAIN scheduled
    /\ scheduled' = [scheduled EXCEPT ![id].status = "cancelled"]
    /\ UNCHANGED <<notified, response, now, configured, partners, messages, wvars, calls, selected, requests>>

\* ------------------------------------------------- send_scheduled_messages
\* Mutants of the filter: one forgets the status, one forgets the time.
IsDueAnyStatus(row, t) == row.scheduled_time <= t
IsDueAnyTime(row, t) == row.status = "pending"

\* The filter of the query: status == 'pending' and scheduled_time <= now.
IsDue(row, t) == row.status = "pending" /\ row.scheduled_time <= t

RECURSIVE RowsFrom(_, _)
\* The selected rows, in id order, as the session loaded them.
RowsFrom(i, t) ==
    IF i > Len(scheduled) THEN <<>>
    ELSE IF IsDue(scheduled[i], t)
         THEN <<[id |-> i, status |-> scheduled[i].status,
                 scheduled_time |-> scheduled[i].scheduled_time]>> \o RowsFrom(i + 1, t)
         ELSE RowsFrom(i + 1, t)

\* Mutant: the targets resolved again at fire time (every partner row).
BatchTargetsResolved(id) == [i \in 1..Cardinality(DOMAIN partners) |-> i]

\* json.loads(scheduled.partner_ids): the list stored with the row.
BatchTargets(id) == scheduled[id].partner_ids

\* The run turns to element k of the rows `rows` it selected.
StartBatch(w, rows, k) ==
    /\ bidx' = [bidx EXCEPT ![w] = k]
    /\ ids' = [ids EXCEPT ![w] = BatchTargets(rows[k].id)]
    /\ idx' = [idx EXCEPT ![w] = 1]
    /\ outcomes' = [outcomes EXCEPT ![w] = <<>>]
    /\ pc' = [pc EXCEPT ![w] =
                IF BatchTargets(rows[k].id) = <<>> THEN "mark" ELSE "loop"]

\* A timer firing: now = utcnow() and the query. A run that finds nothing
\* returns at once.
send_scheduled_messages(w) ==
    /\ w \in Runners /\ pc[w] = "idle"
    /\ LET rows == RowsFrom(1, now)
       IN  /\ rows # <<>>
           /\ rnow' = [rnow EXCEPT ![w] = now]
           /\ pending' = [pending EXCEPT ![w] = rows]
           /\ selected' = selected \cup {rows[k].id : k \in 1..Len(rows)}
           /\ StartBatch(w, rows, 1)
    /\ UNCHANGED <<notified, response, now, configured, partners, messages, scheduled, kind, sid,
                   optAtStart, calls, requests>>

send_scheduled_messages_loop(w) == w \in Runners /\ LoopBody(w)

\* Mutant: a batch with a failed attempt is left as it was.
MarkedStatusIfNoFailure(w) ==
    IF \E i \in 1..Len(outcomes[w]) : outcomes[w][i].result \in {"error", "not_configured"}
    THEN scheduled[pending[w][bidx[w]].id].status
    ELSE "sent"

\* The status a run gives a batch after the loop over its partner_ids.
MarkedStatus(w) == "sent"

\* scheduled.status = 'sent'; commit; on to the next selected row.
send_scheduled_messages_mark(w) ==
    /\ w \in Runners /\ pc[w] = "mark"
    /\ scheduled' = [scheduled EXCEPT ![pending[w][bidx[w]].id].status = MarkedStatus(w)]
    /\ IF bidx[w] < Len(pending[w])
       THEN /\ StartBatch(w, pending[w], bidx[w] + 1)
            /\ UNCHANGED <<pending, rnow>>
       ELSE /\ pc' = [pc EXCEPT ![w] = "idle"]
            /\ pending' = [pending EXCEPT ![w] = <<>>]
            /\ rnow' = [rnow EXCEPT ![w] = 0]
            /\ bidx' = [bidx EXCEPT ![w] = 0]
            /\ ids' = [ids EXCEPT ![w] = <<>>]
            /\ idx' = [idx EXCEPT ![w] = 0]
            /\ outcomes' = [outcomes EXCEPT ![w] = <<>>]
    /\ UNCHANGED <<notified, response, now, configured, partners, messages, kind, sid, optAtStart,
                   calls, selected, requests>>

\* -------------------------------------------------------- webhook_incoming
opt_out_keywords == {"stop", "unsubscribe", "cancel", "quit", "end"}

\* Mutant: a body that starts with a keyword.
IsOptOutPrefix(body) ==
    \E k \in opt_out_keywords : StartsWith(Lower(Strip(body)), k)

\* body.strip().lower() in opt_out_keywords
IsOptOutKeyword(body) == Lower(Strip(body)) \in opt_out_keywords

InboundMessage(pid, body) ==
    [partner_id |-> pid, direction |-> "inbound", status |-> "received",
     sid |-> 0, batch |-> 0, body |-> body]

\* What a notification channel does when asked: it is not configured, it
\* delivers, or it raises (SMTP refused, transport error).
Channels == {"off", "sent", "failed"}

\* Mutant: a failing channel that is not caught.
AttemptUncaught(channel) ==
    IF channel = "off" THEN "skipped"
    ELSE IF channel = "sent" THEN "done" ELSE "raised"

\* One `if <configured>: try: ... except Exception as e: print(...)` block of
\* send_notification.
Attempt(channel) ==
    IF channel = "off" THEN "skipped"
    ELSE IF channel = "sent" THEN "done" ELSE "logged"

\* The SMS block is entered only with a transport client.
SmsChannel(sms) == IF configured THEN sms ELSE "off"

\* send_notification(partner_name, message_body): what its two blocks did.
\* A block that raises leaves the function before the next one.
send_notification(email, sms) ==
    [email |-> Attempt(email),
     sms |-> IF Attempt(email) = "raised" THEN "skipped" ELSE Attempt(SmsChannel(sms))]

\* str(MessagingResponse()) with status 200, or the 500 of an exception that
\* left the view.
Twiml == [kind |-> "twiml", status |-> 200]
ServerError == [kind |-> "error", status |-> 500]

\* The rows webhook_incoming commits and what it returns, for a receipt from
\* phone ph while the notification channels behave as email and sms.
Receipt(ph, body, email, sms) ==
    /\ LET pid == PartnerByPhone(ph)
       IN  IF pid # 0
           THEN /\ partners' = IF IsOptOutKeyword(body)
                               THEN [partners EXCEPT ![pid].opted_out = TRUE]
                               ELSE partners
                /\ messages' = Append(messages, InboundMessage(pid, body))
           ELSE \* unknown sender: a partner row is created for it
                LET new == NewPartnerId
                IN  /\ partners' = [p \in DOMAIN partners \cup {new} |->
                                      IF p = new THEN NewPartner(ph) ELSE partners[p]]
                    /\ messages' = Append(messages, InboundMessage(new, body))
    /\ response' = IF "raised" \in {send_notification(email, sms).email,
                                     send_notification(email, sms).sms}
                   THEN ServerError ELSE Twiml

\* POST /webhook/incoming from phone ph.
webhook_incoming(ph, body, email, sms) ==
    /\ InboundCount < MaxInbound
    /\ Receipt(ph, body, email, sms)
    /\ notified' = send_notification(email, sms)
    /\ UNCHANGED <<now, configured, scheduled, wvars, calls, selected, requests>>

\* ------------------------------------------------------------ partner rows
\* The table with row `new` added.
WithPartner(new, row) ==
    [p \in DOMAIN partners \cup {new} |-> IF p = new THEN row ELSE partners[p]]

\* POST /api/partners: a new row unless the phone is taken (400).
api_partners(ph) ==
    /\ requests < MaxRequests
    /\ requests' = requests + 1
    /\ partners' = IF PartnerByPhone(ph) # 0 THEN partners
                   ELSE WithPartner(NewPartnerId, NewPartner(ph))
    /\ UNCHANGED <<notified, response, now, configured, messages, scheduled, wvars, calls, selected>>

\* Mutant: an edit that writes the flag from a form without it.
EditedPartnerFlagReset(row, ph) == [row EXCEPT !.phone = ph, !.opted_out = FALSE]

\* The row after PUT /api/partners/<id>: of the columns modelled, phone.
EditedPartner(row, ph) == [row EXCEPT !.phone = ph]

\* PUT /api/partners/<id>; the commit fails on the unique phone column when
\* another row has the phone.
api_partner_put(id, ph) ==
    /\ requests < MaxRequests
    /\ requests' = requests + 1
    /\ id \in DOMAIN partners
    /\ partners' = IF PartnerByPhone(ph) \notin {0, id} THEN partners
                   ELSE [partners EXCEPT ![id] = EditedPartner(@, ph)]
    /\ UNCHANGED <<notified, response, now, configured, messages, scheduled, wvars, calls, selected>>

\* DELETE /api/partners/<id>: the partner's messages, then the row.
api_partner_delete(id) ==
    /\ requests < MaxRequests
    /\ requests' = requests + 1
    /\ id \in DOMAIN partners
    /\ messages' = SelectSeq(messages, LAMBDA m : m.partner_id # id)
    /\ partners' = [p \in DOMAIN partners \ {id} |-> partners[p]]
    /\ UNCHANGED <<notified, response, now, configured, scheduled, wvars, calls, selected>>

\* POST /api/partners/<id>/pin
api_pin_partner(id) ==
    /\ requests < MaxRequests
    /\ requests' = requests + 1
    /\ id \in DOMAIN partners
    /\ partners' = [partners EXCEPT ![id].pinned = ~@]
    /\ UNCHANGED <<notified, response, now, configured, messages, scheduled, wvars, calls, selected>>

\* POST /api/partners/<id>/archive
api_archive_partner(id) ==
    /\ requests < MaxRequests
    /\ requests' = requests + 1
    /\ id \in DOMAIN partners
    /\ partners' = [partners EXCEPT ![id].archived = ~@]
    /\ UNCHANGED <<notified, response, now, configured, messages, scheduled, wvars, calls, selected>>

\* The MessageStatus values of a status callback.
StatusValues == {"sent", "delivered", "failed"}

\* MessageStatus as a callback may carry it: a status value or nothing.
CallbackStatuses == StatusValues \cup {""}

\* MessageSid as a callback may carry it: 0 stands for the empty string, the
\* last value is the id of no Message.
CallbackSids == 0..(MaxRequests + 1)

\* Mutant: a callback that finds no row is applied to the newest one.
MessageBySidOrNewest(message_sid) ==
    IF \E i \in 1..Len(messages) : messages[i].sid = message_sid
    THEN CHOOSE i \in 1..Len(messages) :
             /\ messages[i].sid = message_sid
             /\ \A j \in 1..(i - 1) : messages[j].sid # message_sid
    ELSE Len(messages)

\* Message.query.filter_by(twilio_sid=message_sid).first(): the position of
\* the row, 0 for None.
MessageBySid(message_sid) ==
    IF \E i \in 1..Len(messages) : messages[i].sid = message_sid
    THEN CHOOSE i \in 1..Len(messages) :
             /\ messages[i].sid = message_sid
             /\ \A j \in 1..(i - 1) : messages[j].sid # message_sid
    ELSE 0

\* POST /webhook/status: with an id and a status, the first Message with the
\* id gets the status; the answer is an empty 200 in every case.
webhook_status(message_sid, status) ==
    /\ requests < MaxRequests
    /\ requests' = requests + 1
    /\ messages' = IF message_sid # 0 /\ status # "" /\ MessageBySid(message_sid) # 0
                   THEN [messages EXCEPT ![MessageBySid(message_sid)].status = status]
                   ELSE messages
    /\ response' = [kind |-> "callback", status |-> 200, message_sid |-> message_sid,
                    message_status |-> status]
    /\ UNCHANGED <<notified, now, configured, partners, scheduled, wvars, calls, selected>>

\* GET /api/messages/<partner_id>: the partner's inbound messages that were
\* received are now read.
api_messages(partner_id) ==
    /\ messages' = [i \in 1..Len(messages) |->
                      IF /\ messages[i].partner_id = partner_id
                         /\ messages[i].direction = "inbound"
                         /\ messages[i].status = "received"
                      THEN [messages[i] EXCEPT !.status = "read"]
                      ELSE messages[i]]
    /\ UNCHANGED <<notified, response, now, configured, partners, scheduled, wvars, calls,
                   selected, requests>>

\* ------------------------------------------------------ api_ai_ghost_alerts
\* Times are in hours. A message history for the analytics requests: Message
\* rows in insertion order, created_at strictly increasing.
MsgTimes == {0, 10, 40, 168, 200}
Waits == {48, 49, 50, 51, 80, 81, 96, 97, 200}
Directions == {"inbound", "outbound"}

RECURSIVE Ascending(_)
Ascending(S) ==
    IF S = {} THEN <<>>
    ELSE LET m == CHOOSE x \in S : \A y \in S : x <= y
         IN  <<m>> \o Ascending(S \ {m})

\* The histories with one message at each time of ts, for partners 1..n.
HistoriesAt(ts, n) ==
    {[i \in 1..Len(ts) |->
        [partner_id |-> f[i][1], direction |-> f[i][2], created_at |-> ts[i]]] :
     f \in [1..Len(ts) -> (1..n) \X Directions]}

Histories == UNION {HistoriesAt(Ascending(S), NumPartners) : S \in SUBSET MsgTimes}

\* created_at of the newest row (0 for an empty table).
LastTime(msgs) == IF msgs = <<>> THEN 0 ELSE msgs[Len(msgs)].created_at

\* The tables before an analytics request: partner 1 with any archived and
\* opted_out flags beside active partners, a history, and a clock some hours
\* past the last message.
InitGhost ==
    /\ messages \in Histories
    /\ \E archived, opted_out \in BOOLEAN :
          partners = [p \in 1..NumPartners |->
                        IF p = 1
                        THEN [NewPartner(p) EXCEPT !.archived = archived,
                                                   !.opted_out = opted_out]
                        ELSE NewPartner(p)]
    /\ now \in {LastTime(messages) + w : w \in Waits}
    /\ configured = TRUE
    /\ scheduled = <<>>
    /\ WorkersIdle
    /\ response = NoResponse
    /\ notified = NoNotice

RECURSIVE Reverse(_)
Reverse(s) == IF s = <<>> THEN <<>> ELSE Append(Reverse(Tail(s)), Head(s))

RECURSIVE Sum(_)
Sum(s) == IF s = <<>> THEN 0 ELSE Head(s) + Sum(Tail(s))

\* Message.query.filter_by(partner_id=p).order_by(Message.created_at.desc())
MessagesDesc(p) == Reverse(SelectSeq(messages, LAMBDA m : m.partner_id = p))

\* Mutant: archived partners are looked at too.
IsNotOptedOut(p) == ~partners[p].opted_out

\* Partner.query.filter_by(archived=False, opted_out=False)
IsActive(p) == ~partners[p].archived /\ ~partners[p].opted_out

week_hours == 168
min_wait_hours == 48

\* Mutant: a default of one day.
default_response_day == week_hours \div 7

\* `avg_response_hours = 48  # default assumption`
default_response_hours == 48

\* `delta > 0 and delta < 168`
ValidDelta(delta) == delta > 0 /\ delta < week_hours

RECURSIVE PrevOutbound(_, _)
\* `for prev_msg in messages[i+1:]`: the position of the first outbound row
\* from position j on (0 when there is none).
PrevOutbound(msgs, j) ==
    IF j > Len(msgs) THEN 0
    ELSE IF msgs[j].direction = "outbound" THEN j
    ELSE PrevOutbound(msgs, j + 1)

RECURSIVE ResponseTimesFrom(_, _)
\* `for i, msg in enumerate(messages[:-1])` from position i on: for every
\* inbound row the hours since the outbound row before it, when valid.
ResponseTimesFrom(msgs, i) ==
    IF i > Len(msgs) - 1 THEN <<>>
    ELSE LET j == PrevOutbound(msgs, i + 1)
             delta == msgs[i].created_at - msgs[j].created_at
         IN  (IF msgs[i].direction = "inbound" /\ j # 0 /\ ValidDelta(delta)
              THEN <<delta>> ELSE <<>>) \o ResponseTimesFrom(msgs, i + 1)

ResponseTimes(msgs) == ResponseTimesFrom(msgs, 1)

\* avg_response_hours as a fraction num / den.
AvgResponseHours(response_times) ==
    IF response_times = <<>>
    THEN [num |-> default_response_hours, den |-> 1]
    ELSE [num |-> Sum(response_times), den |-> Len(response_times)]

Max2(a, b) == IF a >= b THEN a ELSE b

\* Mutant: waiting exactly the threshold counts as ghosting.
IsGhostingInclusive(hours_waiting, avg) ==
    hours_waiting * avg.den >= Max2(avg.num * 2, min_wait_hours * avg.den)

\* `hours_waiting > max(avg_response_hours * 2, 48)`, both sides times den.
IsGhosting(hours_waiting, avg) ==
    hours_waiting * avg.den > Max2(avg.num * 2, min_wait_hours * avg.den)

\* 'high' if days_waiting > 7 else 'medium' if days_waiting > 3 else 'low'
Urgency(days_waiting) ==
    IF days_waiting > 7 THEN "high" ELSE IF days_waiting > 3 THEN "medium" ELSE "low"

\* The body of `for partner in partners` for partner p: the ghosts appended.
GhostOf(p) ==
    LET msgs == MessagesDesc(p)
        avg == AvgResponseHours(ResponseTimes(msgs))
        hours_waiting == now - msgs[1].created_at
    IN  IF msgs = <<>> THEN <<>>
        ELSE IF msgs[1].direction # "outbound" THEN <<>>
        ELSE IF IsGhosting(hours_waiting, avg)
             THEN <<[partner_id |-> p, days_waiting |-> hours_waiting \div 24,
                     avg_response_hours |-> avg,
                     urgency |-> Urgency(hours_waiting \div 24)]>>
             ELSE <<>>

RECURSIVE GhostsFrom(_)
\* The loop over the active partners, in id order, from id p on.
GhostsFrom(p) ==
    IF \A q \in DOMAIN partners : q < p THEN <<>>
    ELSE (IF p \in DOMAIN partners /\ IsActive(p) THEN GhostOf(p) ELSE <<>>)
         \o GhostsFrom(p + 1)

RECURSIVE SortByDaysWaiting(_)
\* ghosts.sort(key=days_waiting, reverse=True): stable, largest first.
SortByDaysWaiting(gs) ==
    IF gs = <<>> THEN <<>>
    ELSE LET i == CHOOSE i \in 1..Len(gs) :
                      /\ \A j \in 1..Len(gs) : gs[j].days_waiting <= gs[i].days_waiting
                      /\ \A j \in 1..(i - 1) : gs[j].days_waiting < gs[i].days_waiting
         IN  <<gs[i]>> \o SortByDaysWaiting(SubSeq(gs, 1, i - 1) \o SubSeq(gs, i + 1, Len(gs)))

\* GET /api/ai/ghost-alerts (without the suggested messages).
api_ai_ghost_alerts ==
    /\ response' = [kind |-> "ghosts", ghosts |-> SortByDaysWaiting(GhostsFrom(1))]
    /\ UNCHANGED <<notified, now, configured, partners, messages, scheduled, wvars, calls,
                   selected, requests>>

\* --------------------------------------------------------- api_ai_best_time
\* Python's None where a string is expected.
None == "None"

\* Hour 14 of day 0 and hour 9 of day 1.
SampleTimes == <<14, 33>>

\* The history of partner p with directions dirs, the first k messages at
\* SampleTimes[1] and the others at SampleTimes[2].
HistoryOf(p, dirs, k) ==
    [i \in 1..Len(dirs) |->
        [partner_id |-> p, direction |-> dirs[i],
         created_at |-> IF i <= k THEN SampleTimes[1] ELSE SampleTimes[2]]]

\* Up to two earlier inbound messages of partner 2, then up to MaxSamples
\* messages of partner 1 in any directions.
InitBestTime ==
    /\ \E n \in 0..MaxSamples, m \in 0..2 :
          \E dirs \in [1..n -> Directions], k \in 0..n :
              messages = HistoryOf(2, [i \in 1..m |-> "inbound"], m) \o HistoryOf(1, dirs, k)
    /\ partners = [p \in 1..NumPartners |-> NewPartner(p)]
    /\ now = LastTime(messages)
    /\ configured = TRUE
    /\ scheduled = <<>>
    /\ WorkersIdle
    /\ response = NoResponse
    /\ notified = NoNotice

\* msg.created_at.hour and msg.created_at.strftime('%A'); day 0 is a Monday.
HourOf(t) == t % 24
DayNames == <<"Monday", "Tuesday", "Wednesday", "Thursday", "Friday", "Saturday", "Sunday">>
DayOf(t) == DayNames[((t \div 24) % 7) + 1]

\* A dict as the sequence of its [key, count] items in insertion order.
RECURSIVE Counted(_, _)
\* d[key] = d.get(key, 0) + 1 for every key of keys, starting from dict d.
Counted(d, keys) ==
    IF keys = <<>> THEN d
    ELSE LET key == Head(keys)
             at == {i \in 1..Len(d) : d[i].key = key}
         IN  Counted(IF at = {} THEN Append(d, [key |-> key, count |-> 1])
                     ELSE [i \in 1..Len(d) |->
                             IF i \in at THEN [d[i] EXCEPT !.count = @ + 1] ELSE d[i]],
                     Tail(keys))

\* max(d, key=d.get): the first key, in insertion order, with the largest count.
MaxKey(d) ==
    d[CHOOSE i \in 1..Len(d) :
          /\ \A j \in 1..Len(d) : d[j].count <= d[i].count
          /\ \A j \in 1..(i - 1) : d[j].count < d[i].count].key

\* The 12-hour text of best_hour.
TimeStr(best_hour) ==
    IF best_hour < 12
    THEN (IF best_hour # 0 THEN ToString(best_hour) \o ":00 AM" ELSE "12:00 AM")
    ELSE IF best_hour = 12 THEN "12:00 PM"
    ELSE ToString(best_hour - 12) \o ":00 PM"

min_responses == 2
medium_responses == 5
high_responses == 10

\* Mutant: high only above ten responses.
ConfidenceAboveTen(n) ==
    IF n > high_responses THEN "high" ELSE IF n >= medium_responses THEN "medium" ELSE "low"

\* 'high' if len(responses) >= 10 else 'medium' if len(responses) >= 5 else 'low'
Confidence(n) ==
    IF n >= high_responses THEN "high" ELSE IF n >= medium_responses THEN "medium" ELSE "low"

\* Message.query.filter_by(partner_id=partner_id, direction='inbound').all()
Responses(partner_id) ==
    SelectSeq(messages, LAMBDA m : m.partner_id = partner_id /\ m.direction = "inbound")

\* The JSON of the answer for the inbound messages `responses`.
BestTime(partner_id, responses) ==
    LET at == [i \in 1..Len(responses) |-> responses[i].created_at]
        hours == Counted(<<>>, [i \in 1..Len(at) |-> HourOf(at[i])])
        days == Counted(<<>>, [i \in 1..Len(at) |-> DayOf(at[i])])
    IN  IF Len(responses) < min_responses
        THEN [kind |-> "best_time", partner_id |-> partner_id, best_time |-> None,
              best_day |-> None, confidence |-> "low"]
        ELSE [kind |-> "best_time", partner_id |-> partner_id,
              best_time |-> TimeStr(MaxKey(hours)), best_hour |-> MaxKey(hours),
              best_day |-> MaxKey(days), response_count |-> Len(responses),
              confidence |-> Confidence(Len(responses)),
              hour_breakdown |-> hours, day_breakdown |-> days]

\* GET /api/ai/best-time/<partner_id>
api_ai_best_time(partner_id) ==
    /\ response' = IF partner_id \in DOMAIN partners
                   THEN BestTime(partner_id, Responses(partner_id))
                   ELSE [kind |-> "not_found"]
    /\ UNCHANGED <<notified, now, configured, partners, messages, scheduled, wvars, calls,
                   selected, requests>>

\* ------------------------------------------------------ api_ai_next_actions
\* Up to MaxActive partners, of which partner 1 may be archived; partner r (if
\* any) wrote last, partner q (if any) was written to last, the others have
\* no messages.
InitNextActions ==
    /\ \E n \in 0..MaxActive, archived \in BOOLEAN :
          partners = [p \in 1..n |->
                        [NewPartner(p) EXCEPT !.archived = (p = 1 /\ archived)]]
    /\ \E r \in DOMAIN partners \cup {0}, q \in {0, 2} \cap (DOMAIN partners \cup {0}) :
          messages =
              (IF q = 0 THEN <<>>
               ELSE <<[partner_id |-> q, direction |-> "inbound", created_at |-> 0],
                      [partner_id |-> q, direction |-> "outbound", created_at |-> 10]>>)
              \o (IF r = 0 THEN <<>>
                  ELSE <<[partner_id |-> r, direction |-> "inbound", created_at |-> 40]>>)
    /\ now \in {LastTime(messages) + w : w \in {0, 50}}
    /\ configured = TRUE
    /\ scheduled = <<>>
    /\ WorkersIdle
    /\ response = NoResponse
    /\ notified = NoNotice

recent_limit == 5
pool_limit == 30

\* s[:n]
Prefix(s, n) == SubSeq(s, 1, IF Len(s) < n THEN Len(s) ELSE n)

\* partner_data[:30], the part of the list written into the prompt.
Offered(partner_data) == Prefix(partner_data, pool_limit)

\* The partner_data entry of partner p.
PartnerData(p) ==
    LET msgs == Prefix(MessagesDesc(p), recent_limit)
    IN  IF msgs = <<>>
        THEN [id |-> p, status |-> "never_contacted", days_since_contact |-> None,
              last_direction |-> None]
        ELSE [id |-> p,
              status |-> IF msgs[1].direction = "outbound"
                         THEN "awaiting_reply" ELSE "needs_response",
              days_since_contact |-> ToString((now - msgs[1].created_at) \div 24),
              last_direction |-> msgs[1].direction]

RECURSIVE PartnerDataFrom(_)
\* The loop over the active partners, in id order, from id p on.
PartnerDataFrom(p) ==
    IF \A q \in DOMAIN partners : q < p THEN <<>>
    ELSE (IF p \in DOMAIN partners /\ IsActive(p) THEN <<PartnerData(p)>> ELSE <<>>)
         \o PartnerDataFrom(p + 1)

\* The text before the first occurrence of sep in s (all of s without one).
RECURSIVE Before(_, _)
Before(s, sep) ==
    IF s = "" \/ StartsWith(s, sep) THEN ""
    ELSE Head(s) \o Before(Tail(s), sep)

\* s[n:]
Drop(s, n) == SubSeq(s, n + 1, Len(s))

\* The code fence, three backquotes; a backquote is written ~ here (a TLA+
\* string cannot hold one), and no reply contains a real ~.
Fence == "~~~"

\* The clean-up of a reply that starts with a code fence: the text between
\* the first fence and the next one (split(fence)[1]), without a leading
\* "json" (response_text[4:]).
Unwrapped(response_text) ==
    IF StartsWith(response_text, Fence)
    THEN LET inner == Before(Drop(response_text, Len(Fence)), Fence)
         IN  IF StartsWith(inner, "json") THEN Drop(inner, 4) ELSE inner
    ELSE response_text

\* The value of each decimal digit.
Digits == "0123456789"
DigitValue ==
    [c \in {CharAt(Digits, i) : i \in 1..Len(Digits)} |->
        (CHOOSE i \in 1..Len(Digits) : CharAt(Digits, i) = c) - 1]

\* A failed parse (json.JSONDecodeError).
DecodeError == [ok |-> FALSE]

RECURSIVE ParseDigits(_, _)
\* The digits at the start of s, read into the number begun as n.
ParseDigits(s, n) ==
    IF s # "" /\ Head(s) \in DOMAIN DigitValue
    THEN ParseDigits(Tail(s), 10 * n + DigitValue[Head(s)])
    ELSE [ok |-> TRUE, value |-> n, rest |-> s]

\* A JSON number without sign, fraction or exponent at the start of s.
ParseNumber(s) ==
    IF s # "" /\ Head(s) \in DOMAIN DigitValue
          /\ ~(Head(s) = "0" /\ Len(s) > 1 /\ CharAt(s, 2) \in DOMAIN DigitValue)
    THEN ParseDigits(s, 0)
    ELSE DecodeError

\* The token tok at the start of s, after whitespace: what follows it.
Expect(s, tok) ==
    IF StartsWith(LStrip(s), tok)
    THEN [ok |-> TRUE, rest |-> Drop(LStrip(s), Len(tok))]
    ELSE DecodeError

\* A JSON object {"partner_id": <number>} at the start of s.
ParseObject(s) ==
    LET open == Expect(s, "{")
        key == IF open.ok THEN Expect(open.rest, "\"partner_id\"") ELSE DecodeError
        colon == IF key.ok THEN Expect(key.rest, ":") ELSE DecodeError
        number == IF colon.ok THEN ParseNumber(LStrip(colon.rest)) ELSE DecodeError
        close == IF number.ok THEN Expect(number.rest, "}") ELSE DecodeError
    IN  IF close.ok
        THEN [ok |-> TRUE, value |-> [partner_id |-> number.value], rest |-> close.rest]
        ELSE DecodeError

RECURSIVE ParseItems(_, _)
\* The items of a JSON array after its "[" (acc: the items read so far).
ParseItems(s, acc) ==
    IF acc = <<>> /\ Expect(s, "]").ok
    THEN [ok |-> TRUE, value |-> acc, rest |-> Expect(s, "]").rest]
    ELSE LET item == ParseObject(s)
         IN  IF ~item.ok THEN DecodeError
             ELSE IF Expect(item.rest, ",").ok
                  THEN ParseItems(Expect(item.rest, ",").rest, Append(acc, item.value))
                  ELSE IF Expect(item.rest, "]").ok
                       THEN [ok |-> TRUE, value |-> Append(acc, item.value),
                             rest |-> Expect(item.rest, "]").rest]
                       ELSE DecodeError

\* json.loads(text) for the documents a reply is made of: an array of
\* {"partner_id": n} objects or one such object, between optional
\* whitespace; any other text is a JSONDecodeError.
json_loads(text) ==
    LET parsed == IF Expect(text, "[").ok THEN ParseItems(Expect(text, "[").rest, <<>>)
                  ELSE ParseObject(text)
    IN  IF parsed.ok /\ LStrip(parsed.rest) = ""
        THEN [ok |-> TRUE, type |-> IF Expect(text, "[").ok THEN "list" ELSE "dict",
              value |-> parsed.value]
        ELSE DecodeError

\* `for action in actions`: the partner's phone is added when the row exists.
Enriched(actions) ==
    [i \in 1..Len(actions) |->
        IF actions[i].partner_id \in DOMAIN partners
        THEN [partner_id |-> actions[i].partner_id,
              partner_phone |-> partners[actions[i].partner_id].phone]
        ELSE [partner_id |-> actions[i].partner_id]]

\* No text: the request to the ranking model raised.
NoReply == "<raised>"

\* The try block of api_ai_next_actions for the reply text of the ranking
\* model: the status and the JSON returned.
NextActionsResult(reply) ==
    LET loaded == json_loads(Unwrapped(Strip(reply)))
    IN  IF reply = NoReply \/ ~loaded.ok
        THEN [status |-> 500, body |-> <<>>, error |-> TRUE]
        ELSE IF loaded.type # "list"
             THEN \* iterating a dict yields its keys: action['partner_id'] raises
                  [status |-> 500, body |-> <<>>, error |-> TRUE]
             ELSE [status |-> 200, body |-> Enriched(loaded.value), error |-> FALSE]

\* GET /api/ai/next-actions: 400 without a client, otherwise the pool
\* written into the prompt, the reply of the ranking model and the answer.
api_ai_next_actions(client, reply) ==
    /\ response = NoResponse
    /\ response' = IF ~client THEN [kind |-> "error", error |-> "AI not configured"]
                   ELSE [kind |-> "next_actions", pool |-> Offered(PartnerDataFrom(1)),
                         reply |-> reply, result |-> NextActionsResult(reply)]
    /\ UNCHANGED <<notified, now, configured, partners, messages, scheduled, wvars, calls,
                   selected, requests>>

\* ------------------------------------------------------ personalize_message
\* One partner whose text columns hold a name, nothing, or text with braces.
InitRender ==
    /\ \E first_name \in {"Sam", "{{company}}"}, last_name \in {None, "Lee"},
          company \in {None, "Acme"}, region \in {None, "West"}, tsd \in {None, "T1"} :
          partners = <<[phone |-> 1, opted_out |-> FALSE, first_name |-> first_name,
                        last_name |-> last_name, company |-> company,
                        region |-> region, tsd |-> tsd]>>
    /\ messages = <<>>
    /\ now = 0
    /\ configured = TRUE
    /\ scheduled = <<>>
    /\ WorkersIdle
    /\ response = NoResponse
    /\ notified = NoNotice

\* The message texts a caller sends: up to MaxPieces pieces in a row, and the
\* greeting "Hi {{first_name}} from {{company}}".
Pieces ==
    {"Hi ", " from ", "{{first_name}}", "{{last_name}}", "{{name}}", "{{company}}",
     "{{region}}", "{{tsd}}", "{{last_", "name}}", "{{"}

RECURSIVE TemplatesUpTo(_)
TemplatesUpTo(n) ==
    IF n = 0 THEN {""}
    ELSE LET shorter == TemplatesUpTo(n - 1)
         IN  shorter \cup {t \o piece : t \in shorter, piece \in Pieces}

Templates == TemplatesUpTo(MaxPieces) \cup {"Hi {{first_name}} from {{company}}"}

RECURSIVE Replace(_, _, _)
\* s.replace(old, new): every occurrence of old, left to right, not
\* overlapping.
Replace(s, old, new) ==
    IF Len(s) < Len(old) THEN s
    ELSE IF StartsWith(s, old)
         THEN new \o Replace(SubSeq(s, Len(old) + 1, Len(s)), old, new)
         ELSE Head(s) \o Replace(Tail(s), old, new)

\* `value or ''`
OrEmpty(value) == IF value = None THEN "" ELSE value

\* Partner.full_name
full_name(partner) ==
    IF partner.last_name \notin {None, ""}
    THEN partner.first_name \o " " \o partner.last_name
    ELSE partner.first_name

\* The replace calls of personalize_message, in their order.
personalize_message(template, partner) ==
    LET m1 == Replace(template, "{{first_name}}", OrEmpty(partner.first_name))
        m2 == Replace(m1, "{{last_name}}", OrEmpty(partner.last_name))
        m3 == Replace(m2, "{{name}}", OrEmpty(full_name(partner)))
        m4 == Replace(m3, "{{company}}", OrEmpty(partner.company))
        m5 == Replace(m4, "{{region}}", OrEmpty(partner.region))
    IN  Replace(m5, "{{tsd}}", OrEmpty(partner.tsd))

\* `message = personalize_message(data['message'], partner)` of api_send,
\* for one request.
api_send_personalize(pid, template) ==
    /\ response = NoResponse
    /\ pid \in DOMAIN partners
    /\ response' = [kind |-> "rendered", partner_id |-> pid, template |-> template,
                    message |-> personalize_message(template, partners[pid])]
    /\ UNCHANGED <<notified, now, configured, partners, messages, scheduled, wvars, calls,
                   selected, requests>>

\* -------------------------------------------------------------------- Next
\* The periodic job, the scheduling API, the inbound webhook and the clock.
NextJob ==
    \/ Tick
    \/ \E w \in Runners : send_sms_check(w)
    \/ \E w \in Runners : send_sms_create(w)
    \/ \E w \in Runners : send_sms_log(w)
    \/ \E l \in IdLists, t \in Times : api_scheduled(l, t)
    \/ \E id \in 1..MaxBatches : api_scheduled_delete(id)
    \/ \E w \in Runners : send_scheduled_messages(w)
    \/ \E w \in Runners : send_scheduled_messages_loop(w)
    \/ \E w \in Runners : send_scheduled_messages_mark(w)
    \/ \E ph \in Phones, body \in Bodies : webhook_incoming(ph, body, "off", "off")

\* The send requests, the inbound webhook and the clock.
NextApi ==
    \/ Tick
    \/ \E w \in Handlers : send_sms_check(w)
    \/ \E w \in Handlers : send_sms_create(w)
    \/ \E w \in Handlers : send_sms_log(w)
    \/ \E w \in Handlers, pid \in PartnerIds : api_send(w, pid)
    \/ \E w \in Handlers, l \in IdLists : api_broadcast(w, l)
    \/ \E w \in Handlers : api_broadcast_loop(w)
    \/ \E ph \in Phones, body \in Bodies : webhook_incoming(ph, body, "off", "off")

\* The requests that write Partner rows, the single send, the two webhooks and
\* the clock.
NextPartner ==
    \/ Tick
    \/ \E w \in Handlers : send_sms_check(w)
    \/ \E w \in Handlers : send_sms_create(w)
    \/ \E w \in Handlers : send_sms_log(w)
    \/ \E w \in Handlers, pid \in PartnerIds : api_send(w, pid)
    \/ \E ph \in Phones : api_partners(ph)
    \/ \E id \in PartnerIds, ph \in Phones : api_partner_put(id, ph)
    \/ \E id \in PartnerIds : api_partner_delete(id)
    \/ \E id \in PartnerIds : api_pin_partner(id)
    \/ \E id \in PartnerIds : api_archive_partner(id)
    \/ \E ph \in Phones, body \in Bodies : webhook_incoming(ph, body, "off", "off")
    \/ \E m \in CallbackSids, st \in CallbackStatuses : webhook_status(m, st)
    \/ \E id \in PartnerIds : api_messages(id)

\* Bodies an inbound receipt may carry: a word or phrase, in some mix of
\* cases, between two runs of whitespace.
Pads == {"", " ", "\n\t"}
Phrases ==
    {"stop", "STOP", "sToP", "Unsubscribe", "cancel", "QUIT", "End",
     "stop please", "please stop", "weekend", "stopp", "s top", ""}
BodySamples == {l \o w \o r : l \in Pads, w \in Phrases, r \in Pads}

\* The inbound webhook alone, over every sample body.
NextInbound ==
    \E ph \in Phones, body \in BodySamples : webhook_incoming(ph, body, "off", "off")

\* Bodies of the receipts whose notifications are followed.
NoticeBodies == Bodies \cup {"END", "", "hello"}

\* The inbound webhook with every behaviour of the two notification channels.
NextNotify ==
    \E ph \in Phones, body \in NoticeBodies, email \in Channels, sms \in Channels :
        webhook_incoming(ph, body, email, sms)

NextGhost == api_ai_ghost_alerts

NextBestTime == \E partner_id \in PartnerIds : api_ai_best_time(partner_id)

\* The JSON text of one action object and of an array of them.
ActionJson(p) == "{\"partner_id\": " \o ToString(p) \o "}"

RECURSIVE ArrayItems(_)
ArrayItems(ps) ==
    IF ps = <<>> THEN ""
    ELSE ActionJson(Head(ps)) \o (IF Len(ps) > 1 THEN ", " ELSE "") \o ArrayItems(Tail(ps))

ArrayJson(ps) == "[" \o ArrayItems(ps) \o "]"

\* Replies of the ranking model: arrays of up to six actions, bare, fenced or
\* after a sentence; cut-off text; a single object.
Replies ==
    {ArrayJson(<<>>), ArrayJson(<<1>>), ArrayJson(<<2, 1, 40>>),
     ArrayJson(<<1, 2, 1, 2, 1>>), ArrayJson(<<1, 2, 1, 2, 1, 2>>),
     " " \o ArrayJson(<<1>>) \o "\n",
     Fence \o "json\n" \o ArrayJson(<<1, 2>>) \o "\n" \o Fence,
     Fence \o "\n" \o ArrayJson(<<1, 2>>) \o "\n" \o Fence,
     Fence \o "json\n" \o "[{\"partner_id\": 1}, {\"partner_",
     "[{\"partner_id\": 1}, {\"partner_id\": 2",
     "Here are the actions:\n" \o ArrayJson(<<1>>),
     ActionJson(1),
     ""}

NextActions ==
    \E client \in BOOLEAN, reply \in Replies \cup {NoReply} : api_ai_next_actions(client, reply)

NextRender == \E template \in Templates : api_send_personalize(1, template)

\* The whole program.
Next ==
    \/ NextJob \/ NextApi \/ NextPartner \/ NextInbound \/ NextNotify
    \/ NextGhost \/ NextBestTime \/ NextActions \/ NextRender

Spec == Init /\ [][Next]_vars

\* The send requests read and write no ScheduledMessage row and no state of a
\* run of the periodic job, and a run reads nothing a send request writes
\* (Message rows, last_contacted), so the properties of the job are checked
\* on SpecJob and those of the send requests on SpecApi.
SpecJob == Init /\ [][NextJob]_vars
SpecApi == Init /\ [][NextApi]_vars
SpecPartner == Init /\ [][NextPartner]_vars
SpecInbound == Init /\ [][NextInbound]_vars
SpecNotify == Init /\ [][NextNotify]_vars
SpecGhost == InitGhost /\ [][NextGhost]_vars
SpecBestTime == InitBestTime /\ [][NextBestTime]_vars
SpecActions == InitNextActions /\ [][NextActions]_vars
SpecRender == InitRender /\ [][NextRender]_vars

\* ================================================================== claims
BatchCalls(b) == {c \in calls : c.kind = "batch" /\ c.batch = b}
BatchMessages(b) == {i \in 1..Len(messages) : messages[i].batch = b}
Status(b) == scheduled[b].status

\* C1: no transport call is ever issued to a partner whose opted_out flag is
\* already committed as true at the moment of the call (the opt-out check and
\* the transport call of send_sms act as one atomic step).
C1_NoCallToOptedOut == \A c \in calls : ~c.optAtCall

\* C2: api_send for a partner that is opted out when the request arrives
\* returns the compliance denial, with no transport call and no Message, in
\* every configuration state of the transport client.
C2_DenialForOptedOut ==
    \A w \in Handlers :
        (kind[w] = "single" /\ pc[w] = "idle" /\ outcomes[w][1].optAtStart) =>
            /\ outcomes[w][1].result = "opted_out"
            /\ outcomes[w][1].transport = "none"
            /\ ~outcomes[w][1].logged

\* C3: for every batch and every target partner at most one transport send
\* is made, also when two runs of the periodic job overlap.
C3_OneSendPerBatchPartner ==
    \A b \in DOMAIN scheduled : \A c1, c2 \in BatchCalls(b) :
        c1.to = c2.to => c1.w = c2.w

\* C4: the status of a ScheduledMessage only ever moves pending -> sent or
\* pending -> cancelled; sent and cancelled are terminal.
C4_StatusMonotonic ==
    [][\A b \in DOMAIN scheduled :
          Status(b)' # Status(b) =>
              Status(b) = "pending" /\ Status(b)' \in {"sent", "cancelled"}]_vars

\* C5: the compliance gate of a batch is evaluated at fire time: a partner
\* that is opted out when the run reaches it gets no transport call and no
\* outbound Message from that batch, whatever its status was at creation.
C5_GateAtFireTime ==
    /\ \A c \in calls : c.kind = "batch" => ~c.optAtStart
    /\ \A i \in 1..Len(messages) :
          messages[i].batch # 0 =>
              \E c \in BatchCalls(messages[i].batch) :
                  c.to = messages[i].partner_id /\ c.ok /\ ~c.optAtStart

\* C5 witness: a run has skipped a partner that opted out after the batch
\* was created, and made no call to it.
C5_Witness ==
    \E w \in Runners :
        /\ pc[w] = "mark"
        /\ \E i \in 1..Len(outcomes[w]) :
              /\ outcomes[w][i].result = "skipped"
              /\ outcomes[w][i].pid \notin scheduled[CurrentBatch(w)].optedThen
              /\ \A c \in BatchCalls(CurrentBatch(w)) : c.to # outcomes[w][i].pid

\* C6: api_broadcast isolates failures per partner: every element of the
\* list is processed whatever happened to the ones before it, and every
\* partner whose transport call succeeded has a success result.
C6_BroadcastIsolation ==
    \A w \in Handlers :
        kind[w] = "broadcast" =>
            /\ Len(outcomes[w]) = (IF pc[w] = "idle" THEN Len(ids[w]) ELSE idx[w] - 1)
            /\ \A i \in 1..Len(outcomes[w]) : outcomes[w][i].pid = ids[w][i]
            /\ pc[w] = "idle" =>
                  \A c \in calls :
                      (c.w = w /\ c.req = requests /\ c.ok) =>
                          \E j \in 1..Len(Results(w)) :
                              /\ Results(w)[j].pid = c.to
                              /\ Results(w)[j].result = "success"

\* C6 witness: a finished broadcast over [A, B] whose transport call failed
\* for A and succeeded for B.
C6_Witness ==
    \E w \in Handlers :
        /\ kind[w] = "broadcast" /\ pc[w] = "idle"
        /\ Len(Results(w)) = 2
        /\ Results(w)[1].result = "error"
        /\ Results(w)[2].result = "success"

\* A step of run w.
RunStep(w) == <<pc[w], idx[w], bidx[w]>>' # <<pc[w], idx[w], bidx[w]>>

\* C7: a selected batch is transitioned to sent once all its per-partner
\* attempts are over, whatever their outcomes; a failure does not end the
\* loop early, does not leave the batch pending and does not repeat a send.
C7_BatchMarkedSent ==
    /\ [](\A w \in Runners :
            /\ pc[w] = "mark" => Len(outcomes[w]) = Len(ids[w])
            /\ pc[w] \in {"loop", "send_sms", "create", "log"} =>
                  Len(outcomes[w]) = idx[w] - 1 /\ idx[w] <= Len(ids[w]))
    /\ [][\A w \in Runners :
            /\ (pc[w] = "mark" /\ RunStep(w)) =>
                  LET b == pending[w][bidx[w]].id IN scheduled'[b].status = "sent"
            /\ \A c \in calls' \ calls :
                  c.w = w => \A d \in BatchCalls(c.batch) : ~(d.w = w /\ d.to = c.to)]_vars

\* C7 witness: a batch is sent although every transport call made for it
\* failed.
C7_Witness ==
    \E b \in DOMAIN scheduled :
        /\ Status(b) = "sent"
        /\ BatchCalls(b) # {}
        /\ \A c \in BatchCalls(b) : ~c.ok

\* An element of a batch that resolved to a partner passing the gate.
Eligible(e) == e.result \notin {"no_partner", "skipped", "opted_out"}

\* C8: whenever a batch reaches status sent, a transport send has been
\* attempted for every id of its target list that resolved to an existing
\* partner passing the compliance gate.
C8_AtLeastOnce ==
    [][\A w \in Runners :
          (pc[w] = "mark" /\ RunStep(w)) =>
              \A i \in 1..Len(outcomes[w]) :
                  Eligible(outcomes[w][i]) => outcomes[w][i].transport # "none"]_vars

\* A batch cancelled before any run selected it.
CancelledUnselected(b) == Status(b) = "cancelled" /\ b \notin selected

\* C9: a batch whose cancellation is committed before any run selects it
\* never produces a transport call or an outbound Message, and stays
\* cancelled.
C9_CancelledBeforeSelection ==
    /\ [](\A b \in DOMAIN scheduled :
            CancelledUnselected(b) => BatchCalls(b) = {} /\ BatchMessages(b) = {})
    /\ [][\A b \in DOMAIN scheduled :
            CancelledUnselected(b) => CancelledUnselected(b)']_vars

\* C9 witness: a cancelled batch that is due and that no run has selected.
C9_Witness ==
    \E b \in DOMAIN scheduled :
        CancelledUnselected(b) /\ scheduled[b].scheduled_time < now

\* C10: no batch is sent early: a run makes transport calls only for rows
\* that were pending with scheduled_time <= now when it selected them, and no
\* step of a run changes a pending batch whose scheduled_time is still ahead.
C10_NotEarly ==
    /\ [](/\ \A c \in calls : c.selOk
          /\ \A w \in Runners : \A k \in 1..Len(pending[w]) :
                /\ pending[w][k].status = "pending"
                /\ pending[w][k].scheduled_time <= rnow[w]
                /\ rnow[w] <= now)
    /\ [][\A b \in DOMAIN scheduled :
            (Status(b) = "pending" /\ scheduled[b].scheduled_time > now
               /\ \E w \in Runners : RunStep(w)) =>
                /\ scheduled'[b] = scheduled[b]
                /\ b \notin selected'
                /\ BatchCalls(b)' = {}]_vars

\* C10 witness: a transport call made for a batch scheduled after time 0.
C10_Witness ==
    \E c \in calls :
        c.kind = "batch" /\ scheduled[c.batch].scheduled_time > 0

\* The stored target list of batch b, as a set.
Targets(b) == Range(scheduled[b].partner_ids)

OptOutReceipts ==
    {i \in 1..Len(messages) :
        messages[i].direction = "inbound" /\ IsOptOutKeyword(messages[i].body)}

\* C12: after an inbound receipt whose body, trimmed and lower-cased, is an
\* opt-out keyword, the partner of the sender's phone (known before or created
\* by the receipt) has opted_out = TRUE, and a send that finds the partner
\* opted out when its turn begins makes no transport call.
C12_StopOptsOut ==
    /\ \A i \in OptOutReceipts : partners[messages[i].partner_id].opted_out
    /\ \A w \in Workers : \A i \in 1..Len(outcomes[w]) :
          outcomes[w][i].optAtStart => outcomes[w][i].transport = "none"

CasePairs ==
    UNION {{<<CharAt(UpperCase, i), CharAt(LowerCase, i)>>,
            <<CharAt(LowerCase, i), CharAt(UpperCase, i)>>} : i \in 1..Len(UpperCase)}

\* Two characters that are equal, or the two cases of one letter.
SameLetter(c, d) == c = d \/ <<c, d>> \in CasePairs

\* body is whitespace, then keyword k in any mix of cases, then whitespace.
ExactlyKeyword(body, k) ==
    \E i \in 0..Len(body) :
        /\ i + Len(k) <= Len(body)
        /\ \A n \in 1..Len(body) :
              IF n <= i \/ n > i + Len(k)
              THEN CharAt(body, n) \in Whitespace
              ELSE SameLetter(CharAt(body, n), CharAt(k, n - i))

ExactOptOut(body) ==
    \E k \in {"stop", "unsubscribe", "cancel", "quit", "end"} : ExactlyKeyword(body, k)

\* The sample bodies that are exactly a keyword.
ExactSamples == {body \in BodySamples : ExactOptOut(body)}

InboundFrom(p) ==
    {i \in 1..Len(messages) :
        messages[i].direction = "inbound" /\ messages[i].partner_id = p}

\* C14: an opt-out is detected iff the body, trimmed and lower-cased, is
\* exactly one of stop, unsubscribe, cancel, quit, end; a body that only
\* contains a keyword leaves opted_out as it was.
C14_ExactMatch ==
    /\ \A i \in 1..Len(messages) :
          messages[i].direction = "inbound" =>
              (IsOptOutKeyword(messages[i].body) <=> messages[i].body \in ExactSamples)
    /\ \A p \in DOMAIN partners :
          /\ partners[p].opted_out => \E i \in InboundFrom(p) : messages[i].body \in ExactSamples
          /\ p <= NumPartners =>
                ((\E i \in InboundFrom(p) : messages[i].body \in ExactSamples)
                    => partners[p].opted_out)

\* C14 witness: a known partner sent "stop please" between whitespace and is
\* not opted out.
C14_Witness ==
    \E i \in 1..Len(messages) :
        /\ messages[i].body = " stop please\n\t"
        /\ messages[i].partner_id <= NumPartners
        /\ ~partners[messages[i].partner_id].opted_out

\* The transport calls of the request that handler w is serving or served last.
RequestCalls(w) == {c \in calls : c.w = w /\ c.req = requests}

\* C15: send_sms writes last_contacted only after the transport call
\* succeeded: a step changes a partner's last_contacted only when it is the
\* logging step that follows an accepted call to that partner; a transport
\* error ends the invocation with a failure result, without a second call and
\* with the Partner and Message tables as they were.
C15_LastContactedOnSuccess ==
    /\ [](\A w \in Handlers :
            /\ pc[w] = "log" =>
                  \E c \in RequestCalls(w) : c.to = ids[w][idx[w]] /\ c.ok
            /\ \A c, d \in RequestCalls(w) : c.to = d.to => c = d)
    /\ [][/\ \A p \in DOMAIN partners :
              (p \in DOMAIN partners'
                 /\ partners'[p].last_contacted # partners[p].last_contacted) =>
                  \E w \in Workers : pc[w] = "log" /\ ids[w][idx[w]] = p /\ pc'[w] # "log"
          /\ \A w \in Handlers :
              (pc[w] = "create" /\ \E c \in calls' \ calls : ~c.ok) =>
                  /\ pc'[w] = AfterElement(kind[w], idx[w], Len(ids[w]))
                  /\ outcomes'[w] = Append(outcomes[w],
                        Entry(ids[w][idx[w]], optAtStart[w], "error", FALSE, "error"))
                  /\ partners' = partners
                  /\ messages' = messages]_vars

\* C15 witness: an api_send has returned the failure of its one transport
\* call, and the partner has never been contacted.
C15_Witness ==
    \E w \in Handlers :
        /\ kind[w] = "single" /\ pc[w] = "idle"
        /\ Len(outcomes[w]) = 1
        /\ outcomes[w][1].result = "error"
        /\ Cardinality(RequestCalls(w)) = 1
        /\ partners[outcomes[w][1].pid].last_contacted = -1
        /\ now > 0

\* The newest message of partner p.
LatestOf(p) ==
    CHOOSE m \in Range(messages) :
        /\ m.partner_id = p
        /\ \A o \in Range(messages) : o.partner_id = p => o.created_at <= m.created_at

\* A partner GhostDetector looks at: active, with a history whose newest
\* message is outbound.
Candidate(p) ==
    /\ ~partners[p].archived /\ ~partners[p].opted_out
    /\ \E m \in Range(messages) : m.partner_id = p
    /\ LatestOf(p).direction = "outbound"

HoursWaiting(p) == now - LatestOf(p).created_at
Samples(p) == ResponseTimes(MessagesDesc(p))
Flagged(p) == \E i \in 1..Len(response.ghosts) : response.ghosts[i].partner_id = p
GhostRow(p) ==
    response.ghosts[CHOOSE i \in 1..Len(response.ghosts) : response.ghosts[i].partner_id = p]

\* C16 as stated: a candidate with no valid reply samples whose last outbound
\* message is 50 hours old is flagged with days_waiting = 2 and urgency low.
C16_FiftyHoursFlagged ==
    response.kind = "ghosts" =>
        \A p \in DOMAIN partners :
            (Candidate(p) /\ Samples(p) = <<>> /\ HoursWaiting(p) = 50) =>
                /\ Flagged(p)
                /\ GhostRow(p).days_waiting = 2
                /\ GhostRow(p).urgency = "low"

\* C16 amended: a candidate with no valid reply samples is not flagged at 50
\* hours (the threshold is max(2 * 48, 48) = 96); at 97 hours it is flagged
\* with days_waiting = 4 and urgency medium.
C16_FiftyHoursNotFlagged ==
    response.kind = "ghosts" =>
        \A p \in DOMAIN partners :
            (Candidate(p) /\ Samples(p) = <<>>) =>
                /\ HoursWaiting(p) = 50 => ~Flagged(p)
                /\ HoursWaiting(p) = 97 =>
                      /\ Flagged(p)
                      /\ GhostRow(p).days_waiting = 4
                      /\ GhostRow(p).urgency = "medium"

\* C16 witness: the alerts were computed for a candidate without samples that
\* has waited 50 hours, beside one that has waited 97 and is flagged.
C16_Witness ==
    /\ response.kind = "ghosts"
    /\ \E p, q \in DOMAIN partners :
          /\ Candidate(p) /\ Samples(p) = <<>> /\ HoursWaiting(p) = 50
          /\ Candidate(q) /\ Samples(q) = <<>> /\ HoursWaiting(q) > 96
          /\ Flagged(q)

\* hours_waiting > max(2 * mean of the samples, 48), or > 96 without samples.
AboveThreshold(p) ==
    LET n == Len(Samples(p))
    IN  IF n = 0 THEN HoursWaiting(p) > 96
        ELSE HoursWaiting(p) > 48 /\ HoursWaiting(p) * n > 2 * Sum(Samples(p))

\* C17: a candidate is flagged iff hours_waiting > max(2 * avg_response_hours,
\* 48), where avg_response_hours is the mean of the valid samples or 48
\* without any; waiting exactly the threshold is not flagged.
C17_FlagRule ==
    response.kind = "ghosts" =>
        \A p \in DOMAIN partners : Candidate(p) => (Flagged(p) <=> AboveThreshold(p))

\* C17 witness: a candidate with samples has waited exactly twice their mean,
\* more than 48 hours, and is not flagged.
C17_Witness ==
    /\ response.kind = "ghosts"
    /\ \E p \in DOMAIN partners :
          /\ Candidate(p)
          /\ Len(Samples(p)) = 2
          /\ HoursWaiting(p) > 48
          /\ HoursWaiting(p) * Len(Samples(p)) = 2 * Sum(Samples(p))
          /\ ~Flagged(p)

\* The number of inbound messages of partner p.
InboundCountOf(p) == Cardinality(InboundFrom(p))

\* C18: api_ai_best_time gives no best time and no best day for a partner
\* with fewer than 2 inbound messages, and for n >= 2 a result of confidence
\* low for 2..4, medium for 5..9 and high for 10 or more.
C18_Confidence ==
    response.kind = "best_time" =>
        LET n == InboundCountOf(response.partner_id)
        IN  /\ n < 2 => response.best_time = None /\ response.best_day = None
            /\ n >= 2 =>
                  /\ response.best_time # None /\ response.best_day # None
                  /\ response.response_count = n
                  /\ n \in 2..4 => response.confidence = "low"
                  /\ n \in 5..9 => response.confidence = "medium"
                  /\ n >= 10 => response.confidence = "high"

\* C18 witness: the answer for a partner with exactly ten inbound messages,
\* beside another partner's, has confidence high.
C18_Witness ==
    /\ response.kind = "best_time"
    /\ InboundCountOf(response.partner_id) = 10
    /\ InboundCountOf(2) = 1
    /\ response.partner_id = 1
    /\ response.confidence = "high"

\* An active partner whose newest message is inbound.
NeedsResponse(p) ==
    /\ ~partners[p].archived /\ ~partners[p].opted_out
    /\ \E m \in Range(messages) : m.partner_id = p
    /\ LatestOf(p).direction = "inbound"

\* C19: whatever the number of active partners, every active partner whose
\* newest message is inbound is in the pool handed to the ranking model, with
\* status needs_response.
C19_NeedsResponseOffered ==
    response.kind = "next_actions" =>
        \A p \in DOMAIN partners :
            NeedsResponse(p) =>
                \E i \in 1..Len(response.pool) :
                    /\ response.pool[i].id = p
                    /\ response.pool[i].status = "needs_response"

\* The fixed token table: each token with the field that replaces it.
TokenTable(partner) ==
    {<<"{{first_name}}", OrEmpty(partner.first_name)>>,
     <<"{{last_name}}", OrEmpty(partner.last_name)>>,
     <<"{{name}}", IF partner.last_name \in {None, ""} THEN partner.first_name
                   ELSE partner.first_name \o " " \o partner.last_name>>,
     <<"{{company}}", OrEmpty(partner.company)>>,
     <<"{{region}}", OrEmpty(partner.region)>>,
     <<"{{tsd}}", OrEmpty(partner.tsd)>>}

RECURSIVE Rendered(_, _)
\* The template with each of its tokens replaced by its field and every
\* other character kept.
Rendered(template, partner) ==
    IF template = "" THEN ""
    ELSE IF \E e \in TokenTable(partner) : StartsWith(template, e[1])
         THEN LET e == CHOOSE e \in TokenTable(partner) : StartsWith(template, e[1])
              IN  e[2] \o Rendered(SubSeq(template, Len(e[1]) + 1, Len(template)), partner)
         ELSE Head(template) \o Rendered(Tail(template), partner)

\* C20: the rendered message is the template with each token of the table
\* replaced by the partner's field (the empty string for a null field or a
\* missing region or TSD) and all other text unchanged.
C20_Render ==
    response.kind = "rendered" =>
        response.message = Rendered(response.template, partners[response.partner_id])

\* The example of C20: first_name Sam, company null.
C20_Example ==
    (/\ response.kind = "rendered"
     /\ response.template = "Hi {{first_name}} from {{company}}"
     /\ partners[1].first_name = "Sam" /\ partners[1].company = None)
        => response.message = "Hi Sam from "

\* A step that handles a receipt.
ReceiptStep == Len(messages') = Len(messages) + 1 /\ messages'[Len(messages')].direction = "inbound"

\* C21: notification failures are isolated from receipt handling: the rows a
\* receipt leaves (the inbound Message with status received, the partner
\* created for an unknown sender, the opt-out flip) and the response are those
\* of the same receipt under every other behaviour of the email and SMS
\* notification channels, and the response is the empty TwiML document.
C21_NotificationIsolated ==
    [][ReceiptStep =>
          /\ messages'[Len(messages')].status = "received"
          /\ response' = Twiml
          /\ \A ph \in Phones, body \in NoticeBodies :
                (\E email, sms \in Channels : Receipt(ph, body, email, sms)) =>
                    \A email, sms \in Channels : Receipt(ph, body, email, sms)]_vars

\* C21 witness: a STOP receipt of a known partner is logged and has set the
\* flag, and both notification attempts failed.
C21_Witness ==
    /\ notified = [email |-> "logged", sms |-> "logged"]
    /\ response = Twiml
    /\ \E i \in 1..Len(messages) :
          /\ messages[i].body = " Stop "
          /\ messages[i].status = "received"
          /\ messages[i].partner_id <= NumPartners
          /\ partners[messages[i].partner_id].opted_out

\* C22: when the reply of the ranking model is not valid structured data
\* (fenced, cut off, or otherwise unparseable), api_ai_next_actions answers
\* with a result (the parsed actions after unwrapping, or a static fallback),
\* never with an error.
C22_NeverAnError ==
    (response.kind = "next_actions" /\ response.reply # NoReply) =>
        /\ response.result.status = 200
        /\ ~response.result.error

\* C27: api_ai_next_actions returns at most 5 recommendations, whatever the
\* number of items in the reply of the ranking model.
C27_AtMostFive ==
    (response.kind = "next_actions" /\ response.result.status = 200) =>
        Len(response.result.body) <= 5

\* The hour and weekday histograms of the inbound messages of partner p.
HourCount(p, h) ==
    Cardinality({i \in InboundFrom(p) : messages[i].created_at % 24 = h})
DayCount(p, d) ==
    Cardinality({i \in InboundFrom(p) : (messages[i].created_at \div 24) % 7 = d})

\* The lowest hour, and the first weekday, with the largest count.
LowestBestHour(p) ==
    CHOOSE h \in 0..23 :
        /\ \A g \in 0..23 : HourCount(p, g) <= HourCount(p, h)
        /\ \A g \in 0..(h - 1) : HourCount(p, g) < HourCount(p, h)
FirstBestDay(p) ==
    CHOOSE d \in 0..6 :
        /\ \A e \in 0..6 : DayCount(p, e) <= DayCount(p, d)
        /\ \A e \in 0..(d - 1) : DayCount(p, e) < DayCount(p, d)

\* C23: best_hour is the hour with the largest count in the hour histogram
\* and, among several such hours, the lowest one, whatever the order in which
\* the inbound messages are read; best_day likewise for the weekdays.
C23_LowestHourOnTie ==
    (response.kind = "best_time" /\ InboundCountOf(response.partner_id) >= 2) =>
        /\ response.best_hour = LowestBestHour(response.partner_id)
        /\ response.best_day = DayNames[FirstBestDay(response.partner_id) + 1]

\* The outbound messages of the partner of message i stored before it.
OutboundBefore(i) ==
    {j \in 1..(i - 1) :
        /\ messages[j].partner_id = messages[i].partner_id
        /\ messages[j].direction = "outbound"}

\* Hours between message i and the nearest outbound message before it.
Latency(i) ==
    LET j == CHOOSE j \in OutboundBefore(i) : \A k \in OutboundBefore(i) : k <= j
    IN  messages[i].created_at - messages[j].created_at

\* The inbound messages of partner p that give a sample: paired, and with a
\* latency in (0, 168].
SamplePairs(p) ==
    {i \in InboundFrom(p) : OutboundBefore(i) # {} /\ Latency(i) > 0 /\ Latency(i) <= 168}

RECURSIVE LatencySum(_)
LatencySum(S) ==
    IF S = {} THEN 0
    ELSE LET i == CHOOSE i \in S : TRUE IN Latency(i) + LatencySum(S \ {i})

\* The mean of the samples as a fraction, 48 without samples.
MeanLatency(p) ==
    IF SamplePairs(p) = {} THEN [num |-> 48, den |-> 1]
    ELSE [num |-> LatencySum(SamplePairs(p)), den |-> Cardinality(SamplePairs(p))]

\* C24: each inbound message is paired with the nearest outbound message
\* before it, and the latency is a sample iff 0 < latency <= 168 (exactly 168
\* hours counts): the mean a ghost is reported with, and the threshold it was
\* flagged by, are those of these samples.
C24_LatencyWindow ==
    response.kind = "ghosts" =>
        \A p \in DOMAIN partners :
            Candidate(p) =>
                /\ Flagged(p) => GhostRow(p).avg_response_hours = MeanLatency(p)
                /\ Flagged(p) <=>
                      /\ HoursWaiting(p) > 48
                      /\ HoursWaiting(p) * MeanLatency(p).den > 2 * MeanLatency(p).num

\* C25: every partner in the result of api_ai_ghost_alerts is active (not
\* archived, not opted out) and its most recent message is outbound; a
\* partner without messages, or whose most recent message is inbound, is never
\* in the result, however long it has waited.
C25_OnlyActiveAwaitingReply ==
    response.kind = "ghosts" =>
        /\ \A i \in 1..Len(response.ghosts) :
              /\ response.ghosts[i].partner_id \in DOMAIN partners
              /\ Candidate(response.ghosts[i].partner_id)
        /\ \A i, j \in 1..Len(response.ghosts) :
              response.ghosts[i].partner_id = response.ghosts[j].partner_id => i = j

\* C25 witness: the alerts were computed while an archived partner's last
\* outbound message and an active partner's last inbound message are both
\* more than 96 hours old, and neither partner is in the result.
C25_Witness ==
    /\ response.kind = "ghosts"
    /\ \E p, q \in DOMAIN partners :
          /\ partners[p].archived /\ ~partners[p].opted_out
          /\ \E m \in Range(messages) : m.partner_id = p
          /\ LatestOf(p).direction = "outbound"
          /\ HoursWaiting(p) > 96
          /\ ~Flagged(p)
          /\ NeedsResponse(q)
          /\ HoursWaiting(q) > 96
          /\ ~Flagged(q)

\* The six tokens with their fields, last token of the table first.
TokensReversed(partner) ==
    <<<<"{{tsd}}", OrEmpty(partner.tsd)>>,
      <<"{{region}}", OrEmpty(partner.region)>>,
      <<"{{company}}", OrEmpty(partner.company)>>,
      <<"{{name}}", IF partner.last_name \in {None, ""} THEN partner.first_name
                    ELSE partner.first_name \o " " \o partner.last_name>>,
      <<"{{last_name}}", OrEmpty(partner.last_name)>>,
      <<"{{first_name}}", OrEmpty(partner.first_name)>>>>

RECURSIVE SubstitutedInOrder(_, _)
\* The text after substituting the tokens of the list one after the other.
SubstitutedInOrder(text, tokens) ==
    IF tokens = <<>> THEN text
    ELSE SubstitutedInOrder(Replace(text, Head(tokens)[1], Head(tokens)[2]), Tail(tokens))

\* C26: rendering is a single pass: a field value that enters the output is
\* not scanned for tokens, so the template {{first_name}} gives the first name
\* verbatim, and the result is the same when the six tokens are substituted
\* in the opposite order.
C26_SinglePass ==
    response.kind = "rendered" =>
        LET partner == partners[response.partner_id]
        IN  /\ response.template = "{{first_name}}" =>
                  response.message = partner.first_name
            /\ response.message =
                  SubstitutedInOrder(response.template, TokensReversed(partner))

\* C28: the message log is append-only: no step removes a Message or changes
\* the partner_id, direction, body or transport id of one; the status of an
\* existing Message changes only by a status callback (a Message with a
\* transport id) or from received to read (an inbound Message).
C28_AppendOnly ==
    [][/\ Len(messages') >= Len(messages)
       /\ \A i \in 1..Len(messages) :
             /\ messages'[i] = [messages[i] EXCEPT !.status = messages'[i].status]
             /\ messages'[i].status # messages[i].status =>
                   \/ messages[i].sid # 0 /\ messages'[i].status \in StatusValues
                   \/ /\ messages[i].direction = "inbound"
                      /\ messages[i].status = "received"
                      /\ messages'[i].status = "read"]_vars

\* The Messages a callback with this id and status applies to.
CallbackHits(message_sid, status) ==
    {i \in 1..Len(messages) :
        message_sid # 0 /\ status # "" /\ messages[i].sid = message_sid}

\* C29: a status callback changes only the status of the Message whose
\* transport id is the callback's id: every other Message, every Partner and
\* every ScheduledMessage is unchanged, and a callback with an empty or
\* unknown id or an empty status changes nothing.
C29_CallbackFrame ==
    [][(response'.kind = "callback" /\ response' # response) =>
          LET hits == CallbackHits(response'.message_sid, response'.message_status)
          IN  /\ Cardinality(hits) <= 1
              /\ partners' = partners
              /\ scheduled' = scheduled
              /\ Len(messages') = Len(messages)
              /\ \A i \in 1..Len(messages) :
                    messages'[i] =
                        IF i \in hits
                        THEN [messages[i] EXCEPT !.status = response'.message_status]
                        ELSE messages[i]]_vars

\* C29 witness: the last callback delivered the outbound Message with its id,
\* while an inbound Message is still as it was received.
C29_Witness ==
    /\ response.kind = "callback"
    /\ response.message_status = "delivered"
    /\ \E i, j \in 1..Len(messages) :
          /\ messages[i].sid = response.message_sid
          /\ messages[i].direction = "outbound"
          /\ messages[i].status = "delivered"
          /\ messages[j].direction = "inbound"
          /\ messages[j].status = "received"

\* An invocation of send_sms that is over.
Finished(w, c) ==
    \/ pc[w] = "idle"
    \/ c.req < requests
    \/ \E i \in 1..Len(outcomes[w]) : outcomes[w][i].pid = c.to

\* C30: the message log records exactly the accepted sends: an invocation of
\* send_sms has appended an outbound Message iff its transport call returned
\* successfully; every outbound Message is for a partner with a successful
\* call, and every finished invocation with a successful call has its Message
\* in the log.
C30_LogMatchesAcceptedSends ==
    /\ \A w \in Workers : \A i \in 1..Len(outcomes[w]) :
          outcomes[w][i].logged <=> outcomes[w][i].transport = "ok"
    /\ \A i \in 1..Len(messages) :
          messages[i].direction = "outbound" =>
              \E c \in calls : c.ok /\ c.to = messages[i].partner_id
    /\ \A c \in calls :
          (c.ok /\ Finished(c.w, c)) =>
              \E i \in 1..Len(messages) :
                  messages[i].direction = "outbound" /\ messages[i].partner_id = c.to

====
